---- MODULE Spec2Model ----
(***************************************************************************)
(* A model of the edge telemetry node of conect2ai/mmcloud-agent:          *)
(*   - Orchestrator (src/agents/orchestrator.py): the advisory job queue,  *)
(*     the rate gate and the background worker, on asyncio's cooperative   *)
(*     scheduler;                                                          *)
(*   - MMCloud (src/models/mmcloud.py): the online clustering engine;      *)
(*   - AlertsIndex (src/services/alerts_service.py): the proximity query.  *)
(* Each subsystem has its own specification (SpecOrch, SpecCloud,          *)
(* SpecAlerts), and SpecLabel applies MMCloud.update_label on its own; the *)
(* variables of the other subsystems stay at their initial values.         *)
(* SpecTick and SpecSched add the application's main loop and its safety   *)
(* scheduler as the callers of the orchestrator; SpecObd is the main loop  *)
(* and scheduler of websocket_obd.py around that module's own queue.       *)
(***************************************************************************)
EXTENDS Integers, Sequences, FiniteSets, Bags, TLC

VARIABLES
    \* ---- Orchestrator -------------------------------------------------
    llm,            \* self.llm is not None
    on_llm_result,  \* self.on_llm_result is not None
    llm_queue,      \* self._llm_queue: FIFO of jobs
    last_llm_ts,    \* self._last_llm_ts (None or a monotonic time)
    tasks,          \* the asyncio tasks running _llm_worker_loop: a bag of task
                    \* records; the one self._worker_task refers to is `tracked`
    now,            \* time.monotonic()
    next_row,       \* the row id the next enqueue_llm_job call is made with
    last_call,      \* history: the latest enqueue_llm_job call
    delivered,      \* history, per row id: the on_llm_result invocations
    unfinished,     \* self._llm_queue: puts not yet matched by a task_done()
    \* ---- _main_loop_task -----------------------------------------------
    tick,           \* the main loop: where it is, its latest run_once call, rows saved
    LATEST_STATE,   \* the row id of the tick LATEST_STATE holds (None: empty dict)
    last_safety_alert_time, \* _last_safety_alert_time
    sched,          \* safety_scheduler: where it is, and its snapshot of LATEST_STATE
    TRIP_LOG,       \* the trip log: the row_id column of the rows saved so far
    obd,            \* websocket_obd.py: LLM_QUEUE, LLM_ENQUEUED, _last_llm_enqueued_ts
    \* ---- MMCloud ------------------------------------------------------
    max_clusters,       \* self.max_clusters
    clusters,           \* self.clusters: list of Cluster
    cluster_id_counter, \* self.cluster_id_counter
    n_distances,        \* self.n_distances
    mean_distance,      \* self.mean_distance
    variance_distance,  \* self.variance_distance
    returned,           \* what the latest process_point call returned
    last_step,          \* history: what the latest process_point call did
    fed,                \* history: the points fed so far
    \* ---- AlertsIndex --------------------------------------------------
    ALERTS_INDEX,       \* the singleton: not loaded (None), or the loaded index
    last_query,         \* history: the latest get_nearby_alerts_by_gps call, and
                        \* whether the index was loaded when it was made
    frames,             \* history: what ALERTS_INDEX.query returned to it
    alerts              \* history: the list it returned

orchVars == <<llm, on_llm_result, llm_queue, last_llm_ts, tasks, now, next_row,
              last_call, delivered, unfinished>>

tickVars == <<tick, LATEST_STATE, last_safety_alert_time, sched, TRIP_LOG, obd>>

cloudVars == <<max_clusters, clusters, cluster_id_counter, n_distances, mean_distance,
               variance_distance, returned, last_step, fed>>

alertVars == <<ALERTS_INDEX, last_query, frames, alerts>>

vars == <<orchVars, tickVars, cloudVars, alertVars>>

None == 0

(***************************************************************************)
(* Bounds of the model.                                                    *)
(***************************************************************************)
MaxTasks == 2       \* worker tasks that exist at the same time
MaxRows  == 2       \* enqueue_llm_job calls (each with a fresh row id)
MaxTime  == 13      \* the monotonic clock stops advancing here
MaxSchedTime == 25  \* and here in the runs of the safety scheduler
MaxPoints == 10    \* process_point calls
MaxFileRows == 2    \* rows of each of the two CSV files
Scale == 10         \* fixed-point units to 1.0 in the MMCloud arithmetic

\* MMCloud(dimension=2, max_clusters=3) in websocket_obd.py
Dimension == 2
\* np.inf: larger than every number of the model
Inf == 2147483647

\* the max_clusters an engine is built with
ClusterCaps == {1, 2, 3}

Pt(x, y) == <<x * Scale, y * Scale>>

\* the feature points fed to the engine: [radar_area, engine_load]
PointValues == {Pt(0, 0), Pt(100, 100), Pt(20, 0)}

\* feature points on the two axes
AxisValues == {Pt(0, 0), Pt(6, 0), Pt(0, 12)}

\* points of the engine's dimension, one shorter and one longer
ShapeValues == {Pt(0, 0), Pt(6, 0), <<12 * Scale>>, <<Scale, Scale, Scale>>}

\* the points of the end-to-end scenario
Scenario == <<Pt(0, 0), Pt(0, 0), Pt(100, 100)>>

\* EARTH_RADIUS_M * pi, in decimetres: the arc from longitude 0 to longitude 180
HalfTurn == 200151144

\* the longitudes of the rows: the prime meridian, 300 m, 300.4 m and 800 m east
\* of it, 400 m west of the 180 degree meridian and 100 m east of it
LonValues == {0, 3000, 3004, 8000, HalfTurn - 4000, 1000 - HalfTurn}

\* the longitudes of the queries
QueryLons == {0, HalfTurn - 1000}

\* radius_m
RadiusValues == {300, 500}

\* the cluster means update_label is applied to on its own
MeanValues == {Pt(x, y) : x, y \in {0, 3, 4, 5}}

\* Orchestrator.__init__: llm_min_interval_s = 12.0
LlmMinIntervalS == 12
\* _llm_worker_loop: while attempts < 3
MaxAttempts == 3

RowIds == 1..MaxRows
\* the clock is read at 1, 7 and 13 s: before, inside and after the gate interval
TimeSteps == {6}

(***************************************************************************)
(* advise_agent(policy, alerts, llm) with llm configured: it returns       *)
(* (text, "model", meta) when llm.chat answers, (draft, "fallback", meta)  *)
(* when llm.chat raises or times out, and raises itself when the policy    *)
(* object is malformed (the lines before its try block).  Both texts carry *)
(* the "Behavior: .. PRF zone: .." labels, so they are never blank.        *)
(***************************************************************************)
Outcomes == {"model", "fallback", "raise"}

AdviseAgent(o) ==
    IF o = "model"
    THEN [msg |-> "llm text", src |-> "model", meta |-> "llm meta"]
    ELSE [msg |-> "rule draft", src |-> "fallback", meta |-> "fallback meta"]

\* except Exception: msg, src, meta = "", "error", {}
ErrorRet == [msg |-> "", src |-> "error", meta |-> "{}"]

\* (msg or "").strip()
Strip(m) == IF m \in {"", " "} THEN "" ELSE m

\* if src == "model" and (msg or "").strip():
Accepted(ret) == ret.src = "model" /\ Strip(ret.msg) # ""

NoJob == [row_id |-> 0, snap |-> 0]

\* the snapshot the caller passes with row id `row`; the job holds dict(snapshot)
SnapshotOf(row) == row

NoCall == [force |-> FALSE, accepted |-> FALSE]

(***************************************************************************)
(* A task record.  pc is the await the task is suspended at ("get",        *)
(* "call", "sleep_exc", "sleep", "callback") or "done"; cancel: cancel()   *)
(* was called on it; tracked: self._worker_task refers to it; awaited:     *)
(* some stop_background_tasks() call is suspended in `await task`; last:   *)
(* the outcome of the latest advise_agent call for the held job.           *)
(***************************************************************************)
NewTask == [pc |-> "get", cancel |-> FALSE, tracked |-> FALSE, awaited |-> FALSE,
            job |-> NoJob, attempts |-> 0, last |-> "", final |-> ErrorRet]

Put(b, r) == b (+) SetToBag({r})
Take(b, r) == b (-) SetToBag({r})
Replace(b, old, new) == Put(Take(b, old), new)

Tasks == BagToSet(tasks)

\* self._worker_task, when it is not None
Tracked == {r \in Tasks : r.tracked}

\* asyncio.Task.done()
Done(r) == r.pc = "done"

\* the worker holds a dequeued job (it is inside the try block)
InJob(r) == r.pc \in {"call", "sleep_exc", "sleep", "callback"}

\* a finished task that nothing refers to is forgotten
Collect(b) ==
    LET keep == {r \in BagToSet(b) : ~(Done(r) /\ ~r.tracked /\ ~r.awaited)}
    IN [r \in keep |-> CopiesIn(r, b)]

\* self._worker_task = None, or another task
Untrack(b) ==
    LET S == BagToSet(b)
        T == {[r EXCEPT !.tracked = FALSE] : r \in S}
    IN [r \in T |-> (IF r \in S THEN CopiesIn(r, b) ELSE 0)
                    + (IF [r EXCEPT !.tracked = TRUE] \in S
                       THEN CopiesIn([r EXCEPT !.tracked = TRUE], b) ELSE 0)]

\* the outcomes of behavior_agent and of safety_agent_with_gps
AgentOutcomes == {"ok", "raise"}

\* agents/schemas.py: the fields of the OrchestratorOutput dataclass, none with a default
OrchestratorOutputFields == {"policy", "alerts", "message"}

NoOutput == [raised |-> "None", fields |-> {}]

\* the generated __init__ of the dataclass: a keyword that is no field, or a
\* missing field, raises TypeError
OrchestratorOutput(kwargs) ==
    IF DOMAIN kwargs = OrchestratorOutputFields
    THEN [raised |-> "None", fields |-> DOMAIN kwargs]
    ELSE [raised |-> "TypeError", fields |-> {}]

\* Orchestrator.run_once: the except clause re-raises
run_once(behavior, safety) ==
    IF behavior = "raise" \/ safety = "raise"
    THEN [raised |-> "Exception", fields |-> {}]
    ELSE OrchestratorOutput([policy |-> "policy", alerts |-> "alerts",
                             message |-> "None", metrics |-> "rec.as_flat()"])

NoTick == [pc |-> "top", behavior |-> "", safety |-> "", out |-> NoOutput, saved |-> 0]

\* websocket_obd.py: LLM_QUEUE = asyncio.Queue() (the keys of its jobs),
\* LLM_ENQUEUED = set(), _last_llm_enqueued_ts = None
NoObd == [LLM_QUEUE |-> <<>>, LLM_ENQUEUED |-> {}, last_llm_enqueued_ts |-> None]

\* fired: the passes through the backoff test so far, each with the clock
\* reading and whether the enqueue was attempted; poll: what the latest poll
\* got from safety_agent_with_gps and behavior_agent
NoPoll == [hazards |-> FALSE, policy |-> ""]

NoSched == [pc |-> "top", snap |-> None, fired |-> <<>>, poll |-> NoPoll]

OrchInit ==
    /\ llm \in BOOLEAN
    /\ on_llm_result \in BOOLEAN
    /\ llm_queue = <<>>
    /\ last_llm_ts = None
    /\ tasks = EmptyBag
    /\ now = 1
    /\ next_row = 1
    /\ last_call = NoCall
    /\ delivered = [r \in RowIds |-> <<>>]
    /\ unfinished = 0
    /\ tick = NoTick
    /\ LATEST_STATE = None
    /\ last_safety_alert_time = 0
    /\ sched = NoSched
    /\ TRIP_LOG = {}
    /\ obd = NoObd

(***************************************************************************)
(* start_background_tasks                                                  *)
(***************************************************************************)
\* if self._worker_task is None or self._worker_task.done():
MayCreateTask == \A r \in Tracked : Done(r)

start_background_tasks ==
    /\ IF llm /\ MayCreateTask
       THEN LET b == Put(Collect(Untrack(tasks)), [NewTask EXCEPT !.tracked = TRUE])
            IN /\ BagCardinality(b) <= MaxTasks
               /\ tasks' = b
       ELSE UNCHANGED tasks
    /\ UNCHANGED <<llm, on_llm_result, llm_queue, last_llm_ts, now, next_row,
                   last_call, delivered, unfinished, tickVars, cloudVars, alertVars>>

(***************************************************************************)
(* stop_background_tasks: cancel(), then `await self._worker_task`, then   *)
(* self._worker_task = None.  Awaiting a task that is already done does    *)
(* not suspend; otherwise the caller is resumed after the task has ended.  *)
(* Any number of callers may be suspended on the same task: `awaited`      *)
(* records that there is at least one, and a caller that is resumed may or *)
(* may not have been the last one.                                         *)
(***************************************************************************)
stop_begin ==
    /\ \E r \in Tracked :
          IF Done(r)
          THEN tasks' = Collect(Untrack(tasks))
          ELSE tasks' = Replace(tasks, r, [r EXCEPT !.cancel = TRUE, !.awaited = TRUE])
    /\ UNCHANGED <<llm, on_llm_result, llm_queue, last_llm_ts, now, next_row,
                   last_call, delivered, unfinished, tickVars, cloudVars, alertVars>>

stop_resume(r, last) ==
    /\ r \in Tasks
    /\ r.awaited
    /\ Done(r)
    /\ tasks' = Collect(Untrack(Replace(tasks, r, [r EXCEPT !.awaited = ~last])))
    /\ UNCHANGED <<llm, on_llm_result, llm_queue, last_llm_ts, now, next_row,
                   last_call, delivered, unfinished, tickVars, cloudVars, alertVars>>

\* stop_background_tasks when no worker is tracked: nothing happens
stop_noop ==
    /\ Tracked = {}
    /\ UNCHANGED vars

(***************************************************************************)
(* enqueue_llm_job(row_id, policy, alerts, snapshot, force)                *)
(***************************************************************************)
GateClosed_Reversed(force) ==
    /\ ~force
    /\ last_llm_ts # None
    /\ now - last_llm_ts > LlmMinIntervalS

GateClosed(force) ==
    /\ ~force
    /\ last_llm_ts # None
    /\ now - last_llm_ts < LlmMinIntervalS

EnqueueRow_RejectionRestartsGate(row_id, force) ==
    IF llm /\ ~GateClosed(force)
    THEN /\ llm_queue' = Append(llm_queue, [row_id |-> row_id, snap |-> SnapshotOf(row_id)])
         /\ unfinished' = unfinished + 1
         /\ last_llm_ts' = now
         /\ last_call' = [force |-> force, accepted |-> TRUE]
    ELSE /\ last_call' = [force |-> force, accepted |-> FALSE]
         /\ last_llm_ts' = IF llm THEN now ELSE last_llm_ts
         /\ UNCHANGED <<llm_queue, unfinished>>

EnqueueRow_ForcedLeavesGate(row_id, force) ==
    IF llm /\ ~GateClosed(force)
    THEN /\ llm_queue' = Append(llm_queue, [row_id |-> row_id, snap |-> SnapshotOf(row_id)])
         /\ unfinished' = unfinished + 1
         /\ last_llm_ts' = IF force THEN last_llm_ts ELSE now
         /\ last_call' = [force |-> force, accepted |-> TRUE]
    ELSE /\ last_call' = [force |-> force, accepted |-> FALSE]
         /\ UNCHANGED <<llm_queue, unfinished, last_llm_ts>>

EnqueueRow_StampSetOnce(row_id, force) ==
    IF llm /\ ~GateClosed(force)
    THEN /\ llm_queue' = Append(llm_queue, [row_id |-> row_id, snap |-> SnapshotOf(row_id)])
         /\ unfinished' = unfinished + 1
         /\ last_llm_ts' = IF last_llm_ts = None THEN now ELSE last_llm_ts
         /\ last_call' = [force |-> force, accepted |-> TRUE]
    ELSE /\ last_call' = [force |-> force, accepted |-> FALSE]
         /\ UNCHANGED <<llm_queue, unfinished, last_llm_ts>>

\* the body of enqueue_llm_job(row_id, ..., force)
EnqueueRow(row_id, force) ==
    IF llm /\ ~GateClosed(force)
    THEN /\ llm_queue' = Append(llm_queue, [row_id |-> row_id, snap |-> SnapshotOf(row_id)])
         /\ unfinished' = unfinished + 1
         /\ last_llm_ts' = now
         /\ last_call' = [force |-> force, accepted |-> TRUE]
    ELSE /\ last_call' = [force |-> force, accepted |-> FALSE]
         /\ UNCHANGED <<llm_queue, unfinished, last_llm_ts>>

\* enqueue_llm_job called with the next row id
EnqueueJob(force) ==
    /\ next_row <= MaxRows
    /\ next_row' = next_row + 1
    /\ EnqueueRow(next_row, force)

\* a caller other than the main loop (the safety scheduler)
enqueue_llm_job(force) ==
    /\ EnqueueJob(force)
    /\ UNCHANGED <<llm, on_llm_result, tasks, now, delivered, tickVars, cloudVars, alertVars>>

\* time passes
advance_time(d) ==
    /\ now + d <= MaxTime
    /\ now' = now + d
    /\ UNCHANGED <<llm, on_llm_result, llm_queue, last_llm_ts, tasks, next_row,
                   last_call, delivered, unfinished, tickVars, cloudVars, alertVars>>

(***************************************************************************)
(* _llm_worker_loop.  A task runs without interruption between two awaits  *)
(* that suspend: queue.get() on an empty queue, advise_agent, the two      *)
(* asyncio.sleep calls and the callback.                                   *)
(***************************************************************************)
FinalOf_ErrorSource(ret) ==
    [msg |-> ret.msg, src |-> "error", meta |-> ret.meta]

\* final_msg = str(msg or ""); final_src = str(src or "error"); final_meta = meta or {}
FinalOf(ret) ==
    [msg  |-> ret.msg,
     src  |-> IF ret.src = "" THEN "error" ELSE ret.src,
     meta |-> ret.meta]

DecideTask_RetriesAfterSuccess(tk, ret) ==
    IF Accepted(ret)
    THEN [tk EXCEPT !.final = ret,
                    !.pc = IF tk.attempts < MaxAttempts THEN "sleep" ELSE "after"]
    ELSE [tk EXCEPT !.final = FinalOf(ret),
                    !.pc = IF tk.attempts < MaxAttempts THEN "sleep" ELSE "after"]

DecideTask_DropsLastFailure(tk, ret) ==
    IF Accepted(ret)
    THEN [tk EXCEPT !.final = ret, !.pc = "after"]
    ELSE [tk EXCEPT !.pc = IF tk.attempts < MaxAttempts THEN "sleep" ELSE "after"]

\* lines 228-243: accept the attempt, or keep it and retry while attempts < 3;
\* pc "after" is the code after the retry loop
DecideTask(tk, ret) ==
    IF Accepted(ret)
    THEN [tk EXCEPT !.final = ret, !.pc = "after"]
    ELSE [tk EXCEPT !.final = FinalOf(ret),
                    !.pc = IF tk.attempts < MaxAttempts THEN "sleep" ELSE "after"]

\* on_llm_result(row_id, final_msg, final_src, final_meta, snap)
CallbackArgs(tk) ==
    [row_id |-> tk.job.row_id, msg |-> tk.final.msg, src |-> tk.final.src,
     meta |-> tk.final.meta, snap |-> tk.job.snap]

\* finally: task_done(), and the loop is back at queue.get()
BackToGet(tk) == [NewTask EXCEPT !.cancel = tk.cancel, !.tracked = tk.tracked,
                                 !.awaited = tk.awaited]

\* lines 245-273 once the retry loop is over
AfterLoop(r, tk) ==
    IF tk.pc # "after"
    THEN /\ tasks' = Replace(tasks, r, tk)
         /\ UNCHANGED <<delivered, unfinished>>
    ELSE IF on_llm_result
    THEN /\ tasks' = Replace(tasks, r, [tk EXCEPT !.pc = "callback"])
         /\ delivered' = [delivered EXCEPT ![tk.job.row_id] = Append(@, CallbackArgs(tk))]
         /\ UNCHANGED unfinished
    ELSE /\ tasks' = Replace(tasks, r, BackToGet(tk))
         /\ unfinished' = unfinished - 1
         /\ UNCHANGED delivered

\* row_id, policy, alerts, snap = await self._llm_queue.get(); attempts = 1
worker_dequeue(r) ==
    /\ r \in Tasks
    /\ r.pc = "get"
    /\ ~r.cancel
    /\ llm_queue # <<>>
    /\ llm_queue' = Tail(llm_queue)
    /\ tasks' = Replace(tasks, r, [r EXCEPT !.pc = "call", !.job = Head(llm_queue),
                                            !.attempts = 1])
    /\ UNCHANGED <<llm, on_llm_result, last_llm_ts, now, next_row, last_call, delivered, unfinished, tickVars, cloudVars, alertVars>>

\* ret = await advise_agent(policy, alerts, self.llm) ends with outcome o
worker_attempt_return(r, o) ==
    /\ r \in Tasks
    /\ r.pc = "call"
    /\ ~r.cancel
    /\ LET tk == [r EXCEPT !.last = o]
       IN IF o = "raise"
          THEN /\ tasks' = Replace(tasks, r, [tk EXCEPT !.pc = "sleep_exc"])
               /\ UNCHANGED <<delivered, unfinished>>
          ELSE AfterLoop(r, DecideTask(tk, AdviseAgent(o)))
    /\ UNCHANGED <<llm, on_llm_result, llm_queue, last_llm_ts, now, next_row, last_call, tickVars, cloudVars, alertVars>>

\* an asyncio.sleep of the worker ends
worker_wake(r) ==
    /\ r \in Tasks
    /\ r.pc \in {"sleep_exc", "sleep"}
    /\ ~r.cancel
    /\ IF r.pc = "sleep_exc"
       THEN AfterLoop(r, DecideTask(r, ErrorRet))
       ELSE /\ tasks' = Replace(tasks, r, [r EXCEPT !.pc = "call", !.attempts = @ + 1])
            /\ UNCHANGED <<delivered, unfinished>>
    /\ UNCHANGED <<llm, on_llm_result, llm_queue, last_llm_ts, now, next_row, last_call, tickVars, cloudVars, alertVars>>

\* an exception of the callback ends the task instead of being caught
AfterCallback_Propagates(tk, raised) ==
    IF raised THEN [BackToGet(tk) EXCEPT !.pc = "done"] ELSE BackToGet(tk)

\* lines 247-259: the callback returned, or raised into `except Exception`
AfterCallback(tk, raised) == BackToGet(tk)

\* await self.on_llm_result(...) returns or raises: either way the job is
\* acknowledged by the task_done() of the finally clause
worker_callback_return(r, raised) ==
    /\ r \in Tasks
    /\ r.pc = "callback"
    /\ ~r.cancel
    /\ raised \in BOOLEAN
    /\ tasks' = Replace(tasks, r, AfterCallback(r, raised))
    /\ unfinished' = unfinished - 1
    /\ UNCHANGED <<llm, on_llm_result, llm_queue, last_llm_ts, now, next_row,
                   last_call, delivered, tickVars, cloudVars, alertVars>>

\* the cancelled task is resumed: CancelledError is raised at its await, passes the
\* `except Exception` clauses, runs the finally clause when a job is held, and ends the task
worker_cancelled(r) ==
    /\ r \in Tasks
    /\ r.cancel
    /\ ~Done(r)
    /\ tasks' = Collect(Replace(tasks, r, [BackToGet(r) EXCEPT !.pc = "done"]))
    /\ unfinished' = IF InJob(r) THEN unfinished - 1 ELSE unfinished
    /\ UNCHANGED <<llm, on_llm_result, llm_queue, last_llm_ts, now, next_row,
                   last_call, delivered, tickVars, cloudVars, alertVars>>

(***************************************************************************)
(* _main_loop_task of websocket_obd_rasp_english_v3.py, started after ORCH *)
(* is created.  One iteration: rid = next_row_id(), run_once, then either  *)
(* save_row_dynamic and enqueue_llm_job, or the except clause; nothing in  *)
(* between suspends on the worker.  The finally clause sleeps.             *)
(***************************************************************************)
\* the iteration from the return of run_once on: save_row_dynamic,
\* enqueue_llm_job(rid, ...) and LATEST_STATE.update(processed), or the except clause
MainLoopStep(out, behavior, safety) ==
    /\ tick.pc = "top"
    /\ next_row <= MaxRows
    /\ IF out.raised = "None"
       THEN /\ tick' = [pc |-> "sleep", behavior |-> behavior, safety |-> safety,
                        out |-> out, saved |-> tick.saved + 1]
            /\ TRIP_LOG' = TRIP_LOG \cup {next_row}
            /\ EnqueueJob(FALSE)
            /\ LATEST_STATE' = next_row
       ELSE /\ tick' = [pc |-> "sleep", behavior |-> behavior, safety |-> safety,
                        out |-> out, saved |-> tick.saved]
            /\ next_row' = next_row + 1
            /\ UNCHANGED <<llm_queue, unfinished, last_llm_ts, last_call, LATEST_STATE, TRIP_LOG>>
    /\ UNCHANGED <<llm, on_llm_result, tasks, now, delivered, last_safety_alert_time,
                   sched, obd, cloudVars, alertVars>>

main_loop_iteration(behavior, safety) ==
    \E out \in {run_once(behavior, safety)} : MainLoopStep(out, behavior, safety)

\* await asyncio.sleep(SEND_INTERVAL_S) ends
main_loop_wake ==
    /\ tick.pc = "sleep"
    /\ tick' = [tick EXCEPT !.pc = "top"]
    /\ UNCHANGED <<orchVars, LATEST_STATE, last_safety_alert_time, sched, TRIP_LOG, obd,
                   cloudVars, alertVars>>

(***************************************************************************)
(* safety_scheduler of websocket_obd_rasp_english_v3.py, started by        *)
(* startup() next to the main loop.  One iteration: snapshot LATEST_STATE, *)
(* await safety_agent_with_gps (the main loop may run meanwhile), then,    *)
(* with alerts and the backoff elapsed, behavior_agent and                 *)
(* ORCH.enqueue_llm_job(snap["row_id"], ...); it then sleeps.  With an     *)
(* empty LATEST_STATE (no latitude) it only sleeps and retries.            *)
(***************************************************************************)
\* SAFETY_ALERT_BACKOFF_S
SafetyAlertBackoffS == 20

\* time.monotonic() counts from boot: the machine has been up this long when
\* the model's clock starts
Uptime == 20

Monotonic == Uptime + now

BackoffElapsed_PollInterval(t) ==
    t - last_safety_alert_time >= 3

\* now - _last_safety_alert_time >= SAFETY_ALERT_BACKOFF_S
BackoffElapsed(t) ==
    t - last_safety_alert_time >= SafetyAlertBackoffS

\* snap = dict(LATEST_STATE), up to the await of safety_agent_with_gps
safety_scheduler_snapshot ==
    /\ sched.pc = "top"
    /\ LATEST_STATE # None
    /\ sched' = [sched EXCEPT !.pc = "query", !.snap = LATEST_STATE]
    /\ UNCHANGED <<orchVars, tick, LATEST_STATE, last_safety_alert_time, TRIP_LOG, obd,
                   cloudVars, alertVars>>

safety_scheduler_resume_StampOnAccept(hazards, policy) ==
    /\ sched.pc = "query"
    /\ IF hazards /\ BackoffElapsed(Monotonic)
       THEN /\ last_safety_alert_time'
                 = IF policy = "ok" /\ llm /\ ~GateClosed(FALSE)
                   THEN Monotonic ELSE last_safety_alert_time
            /\ sched' = [NoSched EXCEPT !.fired = Append(sched.fired,
                                            [t |-> Monotonic, enqueue |-> policy = "ok"]),
                                        !.poll = [hazards |-> hazards, policy |-> policy]]
            /\ IF policy = "ok"
               THEN EnqueueRow(sched.snap, FALSE)
               ELSE UNCHANGED <<llm_queue, unfinished, last_llm_ts, last_call>>
       ELSE /\ sched' = [NoSched EXCEPT !.fired = sched.fired,
                                        !.poll = [hazards |-> hazards, policy |-> ""]]
            /\ UNCHANGED <<llm_queue, unfinished, last_llm_ts, last_call, last_safety_alert_time>>
    /\ UNCHANGED <<llm, on_llm_result, tasks, now, next_row, delivered, tick, LATEST_STATE,
                   TRIP_LOG, obd, cloudVars, alertVars>>

\* safety_agent_with_gps returns (hazards: alerts is non-empty); policy is the
\* outcome of behavior_agent
safety_scheduler_resume(hazards, policy) ==
    /\ sched.pc = "query"
    /\ IF hazards /\ BackoffElapsed(Monotonic)
       THEN /\ last_safety_alert_time' = Monotonic
            /\ sched' = [NoSched EXCEPT !.fired = Append(sched.fired,
                                            [t |-> Monotonic, enqueue |-> policy = "ok"]),
                                        !.poll = [hazards |-> hazards, policy |-> policy]]
            /\ IF policy = "ok"
               THEN EnqueueRow(sched.snap, FALSE)
               ELSE UNCHANGED <<llm_queue, unfinished, last_llm_ts, last_call>>
       ELSE /\ sched' = [NoSched EXCEPT !.fired = sched.fired,
                                        !.poll = [hazards |-> hazards, policy |-> ""]]
            /\ UNCHANGED <<llm_queue, unfinished, last_llm_ts, last_call, last_safety_alert_time>>
    /\ UNCHANGED <<llm, on_llm_result, tasks, now, next_row, delivered, tick, LATEST_STATE,
                   TRIP_LOG, obd, cloudVars, alertVars>>

\* time passes while the scheduler sleeps between two polls
safety_scheduler_sleep(d) ==
    /\ now + d <= MaxSchedTime
    /\ now' = now + d
    /\ UNCHANGED <<llm, on_llm_result, llm_queue, last_llm_ts, tasks, next_row,
                   last_call, delivered, unfinished, tickVars, cloudVars, alertVars>>

\* what the main loop's await of ORCH.run_once can end with: an OrchestratorOutput,
\* or an exception
RunOnceResults == {[raised |-> "None", fields |-> OrchestratorOutputFields],
                   [raised |-> "Exception", fields |-> {}]}

\* the main loop and the safety scheduler around a run_once that may return
SchedNext ==
    \/ \E out \in RunOnceResults : MainLoopStep(out, "ok", "ok")
    \/ main_loop_wake
    \/ safety_scheduler_snapshot
    \/ \E hazards \in BOOLEAN, policy \in AgentOutcomes : safety_scheduler_resume(hazards, policy)
    \/ \E d \in TimeSteps : safety_scheduler_sleep(d)

(***************************************************************************)
(* websocket_obd.py: the same main loop and safety scheduler around the    *)
(* module's own LLM_QUEUE.  The main loop puts (rid, ...) on the queue     *)
(* after save_row_dynamic; the scheduler puts (ts, ...), where ts is the   *)
(* "ts" entry of its snapshot; llm_worker backfills by                     *)
(* update_row_by_key(TRIP_LOG_FILE, "row_id", key, updates).               *)
(***************************************************************************)
\* processed["ts"] = datetime.now(timezone.utc).isoformat() of the tick saved as
\* row `row`: an ISO timestamp, as a key equal to the row_id of no row
TsOf(row) == 0 - row

\* (_last_llm_enqueued_ts is None) or ((now - _last_llm_enqueued_ts) >= LLM_MIN_INTERVAL_S)
CanCallLlm(t) ==
    \/ obd.last_llm_enqueued_ts = None
    \/ t - obd.last_llm_enqueued_ts >= LlmMinIntervalS

\* await LLM_QUEUE.put((key, ...)); _last_llm_enqueued_ts = now
QueuePut(key, t) ==
    [obd EXCEPT !.LLM_QUEUE = Append(@, key), !.last_llm_enqueued_ts = t]

\* the iteration of _main_loop_task from the return of run_once on
obd_main_loop_step(out) ==
    /\ tick.pc = "top"
    /\ next_row <= MaxRows
    /\ next_row' = next_row + 1
    /\ IF out.raised = "None"
       THEN /\ tick' = [pc |-> "sleep", behavior |-> "ok", safety |-> "ok",
                        out |-> out, saved |-> tick.saved + 1]
            /\ TRIP_LOG' = TRIP_LOG \cup {next_row}
            /\ obd' = IF llm /\ CanCallLlm(Monotonic) THEN QueuePut(next_row, Monotonic) ELSE obd
            /\ LATEST_STATE' = next_row
       ELSE /\ tick' = [pc |-> "sleep", behavior |-> "ok", safety |-> "ok",
                        out |-> out, saved |-> tick.saved]
            /\ UNCHANGED <<TRIP_LOG, obd, LATEST_STATE>>
    /\ UNCHANGED <<llm, on_llm_result, llm_queue, last_llm_ts, tasks, now, last_call,
                   delivered, unfinished, last_safety_alert_time, sched, cloudVars, alertVars>>

\* safety_scheduler from the return of safety_agent_with_gps on
obd_safety_scheduler_resume(hazards, policy) ==
    /\ sched.pc = "query"
    /\ IF hazards /\ BackoffElapsed(Monotonic)
       THEN /\ last_safety_alert_time' = Monotonic
            /\ \E put \in {/\ policy = "ok"
                            /\ TsOf(sched.snap) \notin obd.LLM_ENQUEUED
                            /\ CanCallLlm(Monotonic)} :
                  /\ sched' = [NoSched EXCEPT !.fired = Append(sched.fired,
                                                  [t |-> Monotonic, enqueue |-> put]),
                                              !.poll = [hazards |-> hazards, policy |-> policy]]
                  /\ obd' = IF put
                            THEN [QueuePut(TsOf(sched.snap), Monotonic)
                                    EXCEPT !.LLM_ENQUEUED = @ \cup {TsOf(sched.snap)}]
                            ELSE obd
       ELSE /\ sched' = [NoSched EXCEPT !.fired = sched.fired,
                                        !.poll = [hazards |-> hazards, policy |-> ""]]
            /\ UNCHANGED <<last_safety_alert_time, obd>>
    /\ UNCHANGED <<orchVars, tick, LATEST_STATE, TRIP_LOG, cloudVars, alertVars>>

ObdNext ==
    \/ \E out \in RunOnceResults : obd_main_loop_step(out)
    \/ main_loop_wake
    \/ safety_scheduler_snapshot
    \/ \E hazards \in BOOLEAN, policy \in AgentOutcomes : obd_safety_scheduler_resume(hazards, policy)
    \/ \E d \in TimeSteps : safety_scheduler_sleep(d)

\* the application: startup() starts the worker and never stops it
TickNext ==
    \/ start_background_tasks
    \/ \E behavior, safety \in AgentOutcomes : main_loop_iteration(behavior, safety)
    \/ main_loop_wake
    \/ enqueue_llm_job(FALSE)
    \/ \E d \in TimeSteps : advance_time(d)
    \/ \E r \in Tasks : worker_dequeue(r)
    \/ \E r \in Tasks, o \in Outcomes : worker_attempt_return(r, o)
    \/ \E r \in Tasks : worker_wake(r)
    \/ \E r \in Tasks, raised \in BOOLEAN : worker_callback_return(r, raised)

OrchNext ==
    \/ start_background_tasks
    \/ stop_begin
    \/ stop_noop
    \/ \E r \in Tasks, last \in BOOLEAN : stop_resume(r, last)
    \/ \E force \in BOOLEAN : enqueue_llm_job(force)
    \/ \E d \in TimeSteps : advance_time(d)
    \/ \E r \in Tasks : worker_dequeue(r)
    \/ \E r \in Tasks, o \in Outcomes : worker_attempt_return(r, o)
    \/ \E r \in Tasks : worker_wake(r)
    \/ \E r \in Tasks, raised \in BOOLEAN : worker_callback_return(r, raised)
    \/ \E r \in Tasks : worker_cancelled(r)

(***************************************************************************)
(* MMCloud (src/models/mmcloud.py).  The code computes in float64; the     *)
(* model computes in fixed point, Scale units to 1.0, every division and   *)
(* square root rounded to the nearest unit.  Two norms are compared        *)
(* through their squares, which is exact.                                  *)
(***************************************************************************)
Coords == 1..Dimension

Zeros == [i \in Coords |-> 0]

\* a / b and sqrt(n), rounded to the nearest integer (b > 0)
Div(a, b) == IF a >= 0 THEN (2 * a + b) \div (2 * b) ELSE -((2 * (-a) + b) \div (2 * b))

RECURSIVE SqrtIter(_, _)
SqrtIter(n, x) ==
    LET y == (x + n \div x) \div 2
    IN IF y >= x THEN x ELSE SqrtIter(n, y)

Sqrt(n) ==
    IF n <= 0 THEN 0
    ELSE LET r == SqrtIter(n, n)
         IN IF n - r * r > r THEN r + 1 ELSE r

\* a * b and sqrt(a) of fixed-point numbers
Mul(a, b) == Div(a * b, Scale)
FSqrt(a) == Sqrt(a * Scale)

\* np.linalg.norm(v) of a vector of the engine's two coordinates, and its
\* square (in Scale^2 units)
NormSq(v) == v[1] * v[1] + v[2] * v[2]
Norm(v) == Sqrt(NormSq(v))

Minus(p, q) == [i \in Coords |-> p[i] - q[i]]

\* Cluster.__init__; label None is NoLabel
NoLabel == "None"

Cluster(id) == [id |-> id, count |-> 0, mean |-> Zeros, variance |-> Zeros, label |-> NoLabel]

\* Cluster.add_point
add_point(c, point) ==
    LET count == c.count + 1
        mean == [i \in Coords |-> c.mean[i] + Div(point[i] - c.mean[i], count)]
    IN [c EXCEPT !.count = count,
                 !.mean = mean,
                 !.variance = IF count > 1
                              THEN [i \in Coords |->
                                      Div((count - 2) * c.variance[i]
                                            + Mul(point[i] - c.mean[i], point[i] - mean[i]),
                                          count - 1)]
                              ELSE Zeros]

\* the loop of process_point: the first cluster at the least distance from the point
Nearest(cs, point) ==
    CHOOSE a \in 1..Len(cs) :
        \A j \in 1..Len(cs) :
            /\ NormSq(Minus(point, cs[a].mean)) <= NormSq(Minus(point, cs[j].mean))
            /\ j < a => NormSq(Minus(point, cs[j].mean)) > NormSq(Minus(point, cs[a].mean))

\* update_mean_and_variance, on the statistics before the call
update_mean_and_variance(new_distance) ==
    LET n == n_distances + 1
        mean == mean_distance + Div(new_distance - mean_distance, n)
    IN [n |-> n, mean |-> mean,
        variance |-> variance_distance
                       + Mul(new_distance - mean_distance, new_distance - mean)]

DynamicThreshold_MeanOnly(st) ==
    st.mean

\* mean_distance + 2.67 * std_distance
DynamicThreshold(st) ==
    st.mean + Div(267 * FSqrt(Div(st.variance, st.n - 1)), 100)

calculate_dynamic_outlier_threshold_ColdZero(st) ==
    IF st.n > 1 THEN DynamicThreshold(st) ELSE 0

\* calculate_dynamic_outlier_threshold: np.inf until two distances have been seen
calculate_dynamic_outlier_threshold(st) ==
    IF st.n > 1 THEN DynamicThreshold(st) ELSE Inf

\* calculate_dynamic_dispersion_threshold: 1.0 until two distances have been seen
calculate_dynamic_dispersion_threshold(st) ==
    IF st.n > 1 THEN DynamicThreshold(st) ELSE Scale

\* np.argmax: the first index of the largest entry
ArgMax(v) == CHOOSE i \in Coords : \A j \in Coords : v[i] >= v[j] /\ (j < i => v[j] < v[i])

\* np.where(mean < 0, 0, mean)
ClampNeg(v) == [i \in Coords |-> IF v[i] < 0 THEN 0 ELSE v[i]]

split_cluster_with_variance_ReusesParentId(c, k) ==
    LET d == ArgMax(c.variance)
        half == Div(c.variance[d], 2)
    IN << [Cluster(c.id) EXCEPT !.mean = ClampNeg([c.mean EXCEPT ![d] = c.mean[d] - half])],
          [Cluster(k) EXCEPT !.mean = ClampNeg([c.mean EXCEPT ![d] = c.mean[d] + half])] >>

\* split_cluster_with_variance: the two clusters it returns, with ids k and k + 1
split_cluster_with_variance(c, k) ==
    LET d == ArgMax(c.variance)
        half == Div(c.variance[d], 2)
    IN << [Cluster(k) EXCEPT !.mean = ClampNeg([c.mean EXCEPT ![d] = c.mean[d] - half])],
          [Cluster(k + 1) EXCEPT !.mean = ClampNeg([c.mean EXCEPT ![d] = c.mean[d] + half])] >>

\* self.clusters.remove(cluster): clusters are compared by identity
Remove(cs, a) == [i \in 1..(Len(cs) - 1) |-> IF i < a THEN cs[i] ELSE cs[i + 1]]

MaySplit_IgnoresCap(dispersed, len) ==
    dispersed

\* if assigned_cluster.variance.sum() > dispersion_threshold
\*    and len(self.clusters) < self.max_clusters:
MaySplit(dispersed, len) ==
    dispersed /\ len < max_clusters

SplitStep_KeepsParent(cs, a, k) ==
    cs \o split_cluster_with_variance(cs[a], k)

\* lines 147-150: the parent is removed and the two clusters are appended
SplitStep(cs, a, k) ==
    Remove(cs, a) \o split_cluster_with_variance(cs[a], k)

\* np.argmin / np.argmax over the norms: the first least / largest
ArgMinNorm(cs) ==
    CHOOSE i \in 1..Len(cs) : \A j \in 1..Len(cs) :
        /\ NormSq(cs[i].mean) <= NormSq(cs[j].mean)
        /\ j < i => NormSq(cs[j].mean) > NormSq(cs[i].mean)

ArgMaxNorm(cs) ==
    CHOOSE i \in 1..Len(cs) : \A j \in 1..Len(cs) :
        /\ NormSq(cs[i].mean) >= NormSq(cs[j].mean)
        /\ j < i => NormSq(cs[j].mean) < NormSq(cs[i].mean)

Relabel(cs, i, label) == [cs EXCEPT ![i].label = label]

(***************************************************************************)
(* update_label: the list with its labels assigned, and whether the call   *)
(* raised IndexError.  With three clusters, normal_index = 3 - cautious -  *)
(* aggressive (0-based) is past the end of the list when the two indices   *)
(* are both 0, and the two assignments before it have been made.           *)
(***************************************************************************)
update_label(cs) ==
    IF Len(cs) = 1
    THEN [clusters |-> Relabel(cs, 1, "normal"), raised |-> FALSE]
    ELSE IF Len(cs) = 2
    THEN IF NormSq(cs[1].mean) < NormSq(cs[2].mean)
         THEN [clusters |-> Relabel(Relabel(cs, 1, "cautious"), 2, "aggressive"),
               raised |-> FALSE]
         ELSE [clusters |-> Relabel(Relabel(cs, 1, "aggresive"), 2, "cautious"),
               raised |-> FALSE]
    ELSE LET cautious_index == ArgMinNorm(cs)
             aggressive_index == ArgMaxNorm(cs)
             normal_index == 6 - cautious_index - aggressive_index
             two == Relabel(Relabel(cs, cautious_index, "cautious"),
                            aggressive_index, "aggressive")
         IN IF normal_index \in 1..Len(cs)
            THEN [clusters |-> Relabel(two, normal_index, "normal"), raised |-> FALSE]
            ELSE [clusters |-> two, raised |-> TRUE]

Sum(v) == v[1] + v[2]

Ids(cs) == [i \in 1..Len(cs) |-> cs[i].id]

NoStep == [point |-> Zeros, min_distance |-> 0, outlier |-> FALSE, spawned |-> FALSE,
           dispersed |-> FALSE, split |-> FALSE, parent |-> 0, before_split |-> <<>>]

\* MMCloud.__init__(dimension = 2, max_clusters)
CloudInit ==
    /\ max_clusters \in ClusterCaps
    /\ clusters = <<Cluster(1)>>
    /\ cluster_id_counter = 2
    /\ n_distances = 0
    /\ mean_distance = 0
    /\ variance_distance = 0
    /\ returned = NoLabel
    /\ last_step = NoStep
    /\ fed = <<>>

\* the engine of websocket_obd.py, not used
CloudIdle == CloudInit /\ max_clusters = 3

(***************************************************************************)
(* process_point(point_index, point)                                       *)
(***************************************************************************)
\* point - cluster.mean under numpy broadcasting: a point of length 1 is
\* stretched to the dimension, any other length mismatch raises ValueError
Broadcastable(point) == Len(point) \in {1, Dimension}

Broadcast(point) == [i \in 1..Dimension |-> IF Len(point) = 1 THEN point[1] ELSE point[i]]

AssignPoint_SpawnAlsoMerges(cs, a, p, outlier, spawn, k) ==
    IF spawn
    THEN Append([cs EXCEPT ![a] = add_point(@, p)], add_point(Cluster(k), p))
    ELSE IF outlier
    THEN cs
    ELSE [cs EXCEPT ![a] = add_point(@, p)]

AssignPoint_OutlierEvictsNearest(cs, a, p, outlier, spawn, k) ==
    IF spawn
    THEN Append(cs, add_point(Cluster(k), p))
    ELSE IF outlier
    THEN [cs EXCEPT ![a] = add_point(Cluster(k), p)]
    ELSE [cs EXCEPT ![a] = add_point(@, p)]

AssignPoint_OutlierMerged(cs, a, p, outlier, spawn, k) ==
    IF spawn
    THEN Append(cs, add_point(Cluster(k), p))
    ELSE [cs EXCEPT ![a] = add_point(@, p)]

\* lines 130-142: a new cluster for an outlier below the cap, nothing for an
\* outlier at the cap, otherwise the point is added to the nearest cluster
AssignPoint(cs, a, p, outlier, spawn, k) ==
    IF spawn
    THEN Append(cs, add_point(Cluster(k), p))
    ELSE IF outlier
    THEN cs
    ELSE [cs EXCEPT ![a] = add_point(@, p)]

process_point(point) ==
    /\ n_distances < MaxPoints
    /\ IF ~Broadcastable(point)
       THEN /\ returned' = "ValueError"
            /\ last_step' = [NoStep EXCEPT !.point = point]
            /\ UNCHANGED <<clusters, cluster_id_counter, n_distances, mean_distance,
                           variance_distance, fed>>
       ELSE
       \E p \in {Broadcast(point)} :
       \E a \in {Nearest(clusters, p)} :
       \E min_distance \in {Norm(Minus(p, clusters[a].mean))} :
       \E st \in {update_mean_and_variance(min_distance)} :
       \E outlier \in {min_distance > calculate_dynamic_outlier_threshold(st)} :
       \E spawn \in {outlier /\ Len(clusters) < max_clusters} :
       \E cs1 \in {AssignPoint(clusters, a, p, outlier, spawn, cluster_id_counter)} :
       \E k1 \in {IF spawn THEN cluster_id_counter + 1 ELSE cluster_id_counter} :
       \E dispersed \in {Sum(cs1[a].variance) > calculate_dynamic_dispersion_threshold(st)} :
       \E split \in {MaySplit(dispersed, Len(cs1))} :
       \E lab \in {update_label(IF split THEN SplitStep(cs1, a, k1) ELSE cs1)} :
          /\ n_distances' = st.n
          /\ mean_distance' = st.mean
          /\ variance_distance' = st.variance
          /\ clusters' = lab.clusters
          /\ cluster_id_counter' = IF split THEN k1 + 2 ELSE k1
          /\ returned' = IF lab.raised THEN "IndexError"
                         ELSE IF split THEN cs1[a].label
                         ELSE lab.clusters[a].label
          /\ last_step' = [point |-> point, min_distance |-> min_distance,
                           outlier |-> outlier, spawned |-> spawn,
                           dispersed |-> dispersed, split |-> split,
                           parent |-> cs1[a].id, before_split |-> Ids(cs1)]
          /\ fed' = IF Len(fed) < Len(Scenario) THEN Append(fed, point) ELSE fed
    /\ UNCHANGED <<max_clusters, orchVars, tickVars, alertVars>>

CloudNext == \E point \in PointValues : process_point(point)

CloudNextAxis == \E point \in AxisValues : process_point(point)

CloudNextShape == \E point \in ShapeValues : process_point(point)

(***************************************************************************)
(* update_label on its own: the engine holds one, two or three clusters    *)
(* with any means, as it does inside process_point when update_label is    *)
(* called, and update_label is applied to them.                            *)
(***************************************************************************)
ClusterLists ==
    UNION {[1..n -> MeanValues] : n \in ClusterCaps}

LabelInit ==
    /\ max_clusters = 3
    /\ \E ms \in ClusterLists :
          /\ clusters = [i \in 1..Len(ms) |-> [Cluster(i) EXCEPT !.mean = ms[i]]]
          /\ cluster_id_counter = Len(ms) + 1
    /\ n_distances = 0
    /\ mean_distance = 0
    /\ variance_distance = 0
    /\ returned = NoLabel
    /\ last_step = NoStep
    /\ fed = <<>>

update_label_call ==
    /\ \E lab \in {update_label(clusters)} :
          /\ clusters' = lab.clusters
          /\ returned' = IF lab.raised THEN "IndexError" ELSE "labelled"
    /\ UNCHANGED <<max_clusters, cluster_id_counter, n_distances, mean_distance,
                   variance_distance, last_step, fed, orchVars, tickVars, alertVars>>

LabelNext == update_label_call

(***************************************************************************)
(* AlertsIndex (src/services/alerts_service.py).  Every row and every      *)
(* query position is on the equator, and a longitude is its arc from the   *)
(* prime meridian in decimetres, in -HalfTurn..HalfTurn (-180..180         *)
(* degrees).  On the equator haversine_vectorized is the shorter of the    *)
(* two arcs between the longitudes, and the box of degree_bbox holds the   *)
(* longitudes lon - radius .. lon + radius, whatever the latitude of the   *)
(* rows, as long as the radius is not negative.                            *)
(***************************************************************************)
Abs(x) == IF x < 0 THEN -x ELSE x

\* haversine_vectorized(0, lon1, 0, lon2), in decimetres
haversine_vectorized(lon1, lon2) ==
    IF Abs(lon2 - lon1) <= HalfTurn THEN Abs(lon2 - lon1) ELSE 2 * HalfTurn - Abs(lon2 - lon1)

\* degree_bbox(0, lon, radius_m): lon_min and lon_max, in decimetres
degree_bbox(lon, radius_m) == [lon_min |-> lon - 10 * radius_m, lon_max |-> lon + 10 * radius_m]

WithinRadius_Always(dist, radius_m) ==
    TRUE

\* dist_m <= radius_m
WithinRadius(dist, radius_m) ==
    dist <= 10 * radius_m

\* the rows of a frame, by position
Rows(lons) == 1..Len(lons)

\* a frame of result rows: injective, in the order sort_values("dist_m") leaves
\* them in; rows at the same distance stay in the order they came in when
\* `stable`, and are in any order otherwise
Sorted(f, lons, lon, stable) ==
    \A i, j \in DOMAIN f :
        i < j => /\ f[i] # f[j]
                 /\ haversine_vectorized(lon, lons[f[i]]) <= haversine_vectorized(lon, lons[f[j]])
                 /\ (stable /\ haversine_vectorized(lon, lons[f[i]])
                                  = haversine_vectorized(lon, lons[f[j]])) => f[i] < f[j]

Frame(f, lons, lon) ==
    [i \in DOMAIN f |-> [row |-> f[i], dist_m |-> haversine_vectorized(lon, lons[f[i]])]]

Orderings(S) == [1..Cardinality(S) -> S]

\* _query_numpy for one category: the box, then the distance filter, then the
\* sort (on these few rows an insertion sort, which is stable)
QueryNumpy(lons, lon, radius_m) ==
    LET box == degree_bbox(lon, radius_m)
        idx == {i \in Rows(lons) : lons[i] >= box.lon_min /\ lons[i] <= box.lon_max}
        kept == {i \in idx : WithinRadius(haversine_vectorized(lon, lons[i]), radius_m)}
    IN {Frame(f, lons, lon) : f \in {g \in Orderings(kept) : Sorted(g, lons, lon, TRUE)}}

\* _query_balltree for one category: query_radius returns the rows within the
\* radius in the order of the tree, which then decides the order of the rows
\* at the same distance
QueryBalltree(lons, lon, radius_m) ==
    LET kept == {i \in Rows(lons) : WithinRadius(haversine_vectorized(lon, lons[i]), radius_m)}
    IN {Frame(f, lons, lon) : f \in {g \in Orderings(kept) : Sorted(g, lons, lon, FALSE)}}

\* AlertsIndex.query for one category: the frames it can return
Query(index, lons, lon, radius_m) ==
    IF index.use_balltree
    THEN QueryBalltree(lons, lon, radius_m)
    ELSE QueryNumpy(lons, lon, radius_m)

IntMetres_Decimetres(dist) == dist

\* int(r["dist_m"]): decimetres to whole metres
IntMetres(dist) == dist \div 10

\* Alert(type=..., distance_m=int(r["dist_m"]), direction="ahead", confidence=...)
AlertOf(type, df) ==
    IF df = <<>> THEN <<>>
    ELSE << [type |-> type, distance_m |-> IntMetres(df[1].dist_m), direction |-> "ahead",
             confidence |-> IF type = "accident" THEN 85 ELSE 75] >>

NoQuery == [lon |-> 0, radius_m |-> -1, loaded |-> FALSE, raised |-> "None"]

NoFrames == [acc_df |-> <<>>, mul_df |-> <<>>]

\* ALERTS_INDEX: Optional[AlertsIndex] = None
NoIndex == [loaded |-> FALSE, acidentes |-> <<>>, multas |-> <<>>, use_balltree |-> FALSE,
            trees |-> FALSE]

\* BallTree(np.radians(np.c_[lat, lon]), metric="haversine"): sklearn builds no
\* tree over an empty array, it raises ValueError
BallTree(lons) == lons # <<>>

\* AlertsIndex.__init__: with sklearn installed _use_balltree is set before the
\* two trees are built; if building either raises, the except clause sets both
\* trees to None and leaves _use_balltree set
AlertsIndex(acc, mul, sklearn) ==
    [loaded |-> TRUE, acidentes |-> acc, multas |-> mul, use_balltree |-> sklearn,
     trees |-> sklearn /\ BallTree(acc) /\ BallTree(mul)]

AlertsInit ==
    /\ ALERTS_INDEX = NoIndex
    /\ last_query = NoQuery
    /\ frames = NoFrames
    /\ alerts = <<>>

\* the frames a CSV file can load into: up to MaxFileRows rows
Datasets == UNION {[1..n -> LonValues] : n \in 0..MaxFileRows}

\* init_alerts_index, called once at startup; sklearn may or may not be installed
init_alerts_index ==
    /\ ~ALERTS_INDEX.loaded
    /\ \E acc \in Datasets, mul \in Datasets, bt \in BOOLEAN :
          ALERTS_INDEX' = AlertsIndex(acc, mul, bt)
    /\ UNCHANGED <<last_query, frames, alerts, orchVars, tickVars, cloudVars>>

\* get_nearby_alerts_by_gps(0, lon, radius_m)
get_nearby_alerts_by_gps(lon, radius_m) ==
    /\ IF ~ALERTS_INDEX.loaded
       THEN /\ last_query' = [lon |-> lon, radius_m |-> radius_m, loaded |-> FALSE,
                               raised |-> "None"]
            /\ frames' = NoFrames
            /\ alerts' = <<>>
       ELSE IF ALERTS_INDEX.use_balltree /\ ~ALERTS_INDEX.trees
       THEN \* _query_balltree: self._acc_tree.query_radius with _acc_tree None
            /\ last_query' = [lon |-> lon, radius_m |-> radius_m, loaded |-> TRUE,
                               raised |-> "AttributeError"]
            /\ frames' = NoFrames
            /\ alerts' = <<>>
       ELSE \E acc_df \in Query(ALERTS_INDEX, ALERTS_INDEX.acidentes, lon, radius_m) :
            \E mul_df \in Query(ALERTS_INDEX, ALERTS_INDEX.multas, lon, radius_m) :
               /\ last_query' = [lon |-> lon, radius_m |-> radius_m, loaded |-> TRUE,
                                  raised |-> "None"]
               /\ frames' = [acc_df |-> acc_df, mul_df |-> mul_df]
               /\ alerts' = AlertOf("accident", acc_df) \o AlertOf("fine", mul_df)
    /\ UNCHANGED <<ALERTS_INDEX, orchVars, tickVars, cloudVars>>

AlertsNext ==
    \/ init_alerts_index
    \/ \E lon \in QueryLons, radius_m \in RadiusValues : get_nearby_alerts_by_gps(lon, radius_m)

(***************************************************************************)
(* Specifications: one per subsystem.                                      *)
(***************************************************************************)
OrchIdle == OrchInit /\ ~llm /\ ~on_llm_result

\* the initial states of each specification: the subsystem as constructed, the
\* other subsystems idle
OrchStart == OrchInit /\ CloudIdle /\ AlertsInit

CloudStart == CloudInit /\ OrchIdle /\ AlertsInit

LabelStart == LabelInit /\ OrchIdle /\ AlertsInit

AlertsStart == AlertsInit /\ OrchIdle /\ CloudIdle

SpecOrch == OrchStart /\ [][OrchNext]_vars

SpecTick == OrchStart /\ [][TickNext]_vars

SpecSched == OrchStart /\ [][SchedNext]_vars

SpecObd == OrchStart /\ [][ObdNext]_vars

SpecCloud == CloudStart /\ [][CloudNext]_vars

SpecCloudAxis == CloudStart /\ [][CloudNextAxis]_vars

SpecCloudShape == CloudStart /\ [][CloudNextShape]_vars

SpecLabel == LabelStart /\ [][LabelNext]_vars

SpecAlerts == AlertsStart /\ [][AlertsNext]_vars

\* the advise_agent calls in flight: the tasks suspended in the call, not cancelled
InFlight ==
    LET S == {r \in Tasks : r.pc = "call" /\ ~r.cancel}
    IN BagCardinality([r \in S |-> CopiesIn(r, tasks)])

\* C1: at any moment at most one call to advise_agent is in flight, for every
\* interleaving of start_background_tasks, stop_background_tasks, enqueue_llm_job
\* and the worker's steps.
C1_AtMostOneInFlight == InFlight <= 1

(***************************************************************************)
(* C3.  The task that holds the job with row id `row`, before and after a  *)
(* step.                                                                   *)
(***************************************************************************)
Holder(b, row) == {q \in BagToSet(b) : q.job.row_id = row}

\* what the latest advise_agent call of a job handed to the worker
LastAttempt(o) == IF o = "raise" THEN ErrorRet ELSE AdviseAgent(o)

ExpectedArgs(row, o) ==
    [row_id |-> row, msg |-> LastAttempt(o).msg, src |-> LastAttempt(o).src,
     meta |-> LastAttempt(o).meta, snap |-> SnapshotOf(row)]

\* the third attempt of the held job is over and has failed
FailedAll(q) ==
    /\ q.attempts = MaxAttempts
    /\ q.last \in {"fallback", "raise"}
    /\ q.pc \in {"sleep_exc", "callback"}

FirstJob == [row_id |-> 1, snap |-> SnapshotOf(1)]

C4_SecondCallWithinIntervalDropped ==
    [][(/\ llm
        /\ next_row = 2 /\ next_row' = 3
        /\ ~last_call.force /\ ~last_call'.force
        /\ now - last_llm_ts < LlmMinIntervalS
        /\ llm_queue = <<FirstJob>>)
          => llm_queue' = <<FirstJob>>]_vars

\* the second call has been made inside the interval, and only the first job is queued
C4_Witness ==
    /\ llm
    /\ next_row = 3
    /\ last_call = [force |-> FALSE, accepted |-> FALSE]
    /\ last_llm_ts # None
    /\ now - last_llm_ts = 6
    /\ llm_queue = <<FirstJob>>
    /\ tasks = EmptyBag

(***************************************************************************)
(* C2: for an engine built with max_clusters >= 1, after every             *)
(* process_point call the number of clusters is at least 1 and at most     *)
(* max_clusters.                                                           *)
(***************************************************************************)
C2_ClusterCountWithinCap ==
    /\ Len(clusters) >= 1
    /\ Len(clusters) <= max_clusters

\* the engine is at its cap of 3 and the latest call found the nearest cluster
\* dispersed beyond the threshold: only the cap kept it from splitting
C2_Witness ==
    /\ max_clusters = 3
    /\ Len(clusters) = 3
    /\ last_step.dispersed
    /\ ~last_step.split

(***************************************************************************)
(* C5: neither the first nor the second process_point call creates a       *)
(* cluster through the outlier branch.                                     *)
(***************************************************************************)
C5_FirstTwoCallsNeverSpawn ==
    n_distances \in {1, 2} => ~last_step.spawned

\* the second call came with a point away from the only cluster, below the cap
C5_Witness ==
    /\ n_distances = 2
    /\ last_step.min_distance > 0
    /\ Len(last_step.before_split) < max_clusters
    /\ ~last_step.spawned

\* a list of ids without one of them
Without(ids, id) == SelectSeq(ids, LAMBDA x : x # id)

(***************************************************************************)
(* C6: a dispersion split removes the split parent from the cluster list   *)
(* and appends exactly two new clusters, so that the list grows by exactly *)
(* one.                                                                    *)
(***************************************************************************)
C6_SplitReplacesParentByTwo ==
    last_step.split =>
        /\ Len(clusters) = Len(last_step.before_split) + 1
        /\ last_step.parent \in {last_step.before_split[i] : i \in 1..Len(last_step.before_split)}
        /\ \A i \in 1..Len(clusters) : clusters[i].id # last_step.parent
        /\ Ids(clusters) = Without(last_step.before_split, last_step.parent)
                             \o <<cluster_id_counter - 2, cluster_id_counter - 1>>
        /\ \A i \in 1..Len(last_step.before_split) :
              last_step.before_split[i] < cluster_id_counter - 2

\* a split of one of two clusters: the list went from 2 to 3
C6_Witness ==
    /\ last_step.split
    /\ Len(last_step.before_split) = 2
    /\ Len(clusters) = 3

(***************************************************************************)
(* C7: update_label with exactly 2 clusters labels the cluster whose mean  *)
(* has the lower norm "cautious" and the other one "aggressive", in both   *)
(* orders of the list.                                                     *)
(***************************************************************************)
C7_TwoClustersLowerNormCautious ==
    [][\A i, j \in {1, 2} :
          (Len(clusters) = 2 /\ NormSq(clusters[i].mean) < NormSq(clusters[j].mean))
              => /\ clusters'[i].label = "cautious"
                 /\ clusters'[j].label = "aggressive"]_vars

(***************************************************************************)
(* C10.  A fresh engine with max_clusters = 3 has been fed [0,0], [0,0],   *)
(* [100,100].                                                              *)
(***************************************************************************)
ScenarioDone ==
    /\ max_clusters = 3
    /\ n_distances = Len(Scenario)
    /\ fed = Scenario

ClusterWithId(id) == {clusters[i] : i \in {j \in 1..Len(clusters) : clusters[j].id = id}}

\* C10 as claimed: the third point is detected as an outlier and spawns a new
\* cluster holding it, the original cluster stays in the list, and the original
\* cluster is labelled cautious and the new one aggressive.
C10_ThirdPointSpawnsCluster ==
    ScenarioDone =>
        /\ last_step.outlier
        /\ last_step.spawned
        /\ \E c \in ClusterWithId(1) : c.label = "cautious"
        /\ \E c \in ClusterWithId(2) :
              c.count = 1 /\ c.mean = Pt(100, 100) /\ c.label = "aggressive"

\* C10 as amended: the third point is not an outlier; it is merged into the
\* original cluster, which is then split and leaves the list; the list holds the
\* two clusters of the split, both empty, along the first coordinate: the one
\* at 0 is labelled cautious and the one at about 1700 aggressive; the call returns
\* the label the original cluster had, normal.
C10_ThirdPointSplitsOriginal ==
    ScenarioDone =>
        /\ ~last_step.outlier
        /\ ~last_step.spawned
        /\ last_step.split
        /\ last_step.parent = 1
        /\ ClusterWithId(1) = {}
        /\ Ids(clusters) = <<2, 3>>
        /\ clusters[1].count = 0 /\ clusters[2].count = 0
        /\ clusters[1].mean[1] = 0
        /\ clusters[2].mean[1] \in (1699 * Scale)..(1701 * Scale)
        /\ clusters[1].mean[2] = clusters[2].mean[2]
        /\ clusters[1].label = "cautious"
        /\ clusters[2].label = "aggressive"
        /\ returned = "normal"

\* the three points have been fed and the original cluster has been split
C10_Witness ==
    /\ ScenarioDone
    /\ last_step.split
    /\ last_step.point = Pt(100, 100)
    /\ Len(clusters) = 2

(***************************************************************************)
(* C8: get_nearby_alerts_by_gps returns at most one Alert of type accident *)
(* and at most one of type fine, and every Alert it returns has            *)
(* distance_m <= radius_m.                                                 *)
(***************************************************************************)
C8_OnePerCategoryWithinRadius ==
    /\ Cardinality({i \in 1..Len(alerts) : alerts[i].type = "accident"}) <= 1
    /\ Cardinality({i \in 1..Len(alerts) : alerts[i].type = "fine"}) <= 1
    /\ \A i \in 1..Len(alerts) :
          /\ alerts[i].type \in {"accident", "fine"}
          /\ alerts[i].distance_m >= 0
          /\ alerts[i].distance_m <= last_query.radius_m

\* two accidents and a fine were in range, and one Alert of each type came back,
\* the accident at 300.4 m as 300
C8_Witness ==
    /\ ALERTS_INDEX.loaded
    /\ Len(frames.acc_df) = 2
    /\ Len(frames.mul_df) >= 1
    /\ Len(alerts) = 2
    /\ alerts[1].type = "accident" /\ alerts[1].distance_m = 300
    /\ alerts[2].type = "fine"

(***************************************************************************)
(* C9: for the same dataset, query point and radius, _query_numpy and      *)
(* _query_balltree return the same rows in the same order, for both        *)
(* categories, also when the box of the query crosses the 180 degree       *)
(* meridian.                                                               *)
(***************************************************************************)
C9_StrategiesAgree ==
    (ALERTS_INDEX.loaded /\ last_query # NoQuery) =>
        /\ QueryNumpy(ALERTS_INDEX.acidentes, last_query.lon, last_query.radius_m)
             = QueryBalltree(ALERTS_INDEX.acidentes, last_query.lon, last_query.radius_m)
        /\ QueryNumpy(ALERTS_INDEX.multas, last_query.lon, last_query.radius_m)
             = QueryBalltree(ALERTS_INDEX.multas, last_query.lon, last_query.radius_m)

(***************************************************************************)
(* C11: get_nearby_alerts_by_gps with radius 500 against an index holding  *)
(* one accident at 300 m and one fine at 800 m from the query point        *)
(* returns exactly one Alert, of type accident with distance_m 300, and no *)
(* fine Alert.                                                             *)
(***************************************************************************)
ScenarioQueried ==
    /\ ALERTS_INDEX.loaded
    /\ ALERTS_INDEX.acidentes = <<3000>>
    /\ ALERTS_INDEX.multas = <<8000>>
    /\ last_query = [lon |-> 0, radius_m |-> 500, loaded |-> TRUE, raised |-> "None"]

C11_AccidentOnlyAt300 ==
    ScenarioQueried =>
        alerts = << [type |-> "accident", distance_m |-> 300, direction |-> "ahead",
                     confidence |-> 85] >>

\* the scenario has been queried, and the accident came back
C11_Witness ==
    /\ ScenarioQueried
    /\ Len(alerts) = 1
    /\ Len(frames.acc_df) = 1
    /\ frames.mul_df = <<>>

(***************************************************************************)
(* C12.  A generator call that times out: llm.chat raises inside the try   *)
(* block of advise_agent, which returns the rule draft with source         *)
(* "fallback" (outcome "fallback" of the model).  What the worker does     *)
(* after an attempt depends on that attempt and on the attempt count only. *)
(***************************************************************************)
TimedOut(q) == q.last = "fallback"

\* C12 as claimed: after a third attempt that timed out the callback is invoked
\* once for the job, with source "timeout" or "error".
C12_TimeoutSourceDelivered ==
    \A row \in RowIds : \A q \in Holder(tasks, row) :
        (on_llm_result /\ q.pc = "callback" /\ q.attempts = MaxAttempts /\ TimedOut(q))
            => /\ Len(delivered[row]) = 1
               /\ delivered[row][1].src \in {"timeout", "error"}

\* C12 as amended: with a result callback configured and the worker not
\* cancelled, an attempt that times out is followed by a backoff sleep and the
\* next attempt while fewer than 3 attempts were made; the third one is
\* followed by exactly one callback invocation, with the rule draft and source
\* "fallback"; no job gets a fourth attempt; and when the callback is over the
\* worker is back at queue.get(), still running, and takes the job at the head
\* of the queue.
C12_TimeoutsEndInFallbackDelivery ==
    [][\A row \in RowIds : \A q \in Holder(tasks, row) :
          /\ q.attempts <= MaxAttempts
          /\ (on_llm_result /\ ~q.cancel /\ q.pc = "call"
                /\ \E n \in Holder(tasks', row) : n.pc # "call" /\ TimedOut(n))
                => \E n \in Holder(tasks', row) :
                      /\ n.attempts = q.attempts
                      /\ IF q.attempts < MaxAttempts
                         THEN n.pc = "sleep" /\ delivered' = delivered
                         ELSE /\ n.pc = "callback"
                              /\ delivered'[row]
                                   = << [row_id |-> row, msg |-> "rule draft",
                                         src |-> "fallback", meta |-> "fallback meta",
                                         snap |-> SnapshotOf(row)] >>
          /\ (~q.cancel /\ q.pc = "sleep"
                /\ \E n \in Holder(tasks', row) : n.pc # "sleep")
                => \E n \in Holder(tasks', row) :
                      n.pc = "call" /\ n.attempts = q.attempts + 1
          /\ (~q.cancel /\ q.pc = "callback" /\ Holder(tasks', row) = {})
                => /\ BackToGet(q) \in BagToSet(tasks')
                   /\ BackToGet(q).pc = "get"
                   /\ BagCardinality(tasks') = BagCardinality(tasks)
                   /\ delivered' = delivered
          /\ \A t \in Tasks :
                (t.pc = "get" /\ ~t.cancel /\ llm_queue # <<>> /\ llm_queue' # llm_queue
                   /\ next_row' = next_row)
                    => \E n \in Holder(tasks', Head(llm_queue).row_id) :
                          n.pc = "call" /\ n.attempts = 1]_vars

\* the first job timed out three times and was delivered once as a fallback, and
\* the same worker is now calling the generator for the second job
C12_Witness ==
    /\ on_llm_result
    /\ BagCardinality(tasks) = 1
    /\ delivered[1] = << [row_id |-> 1, msg |-> "rule draft", src |-> "fallback",
                          meta |-> "fallback meta", snap |-> SnapshotOf(1)] >>
    /\ \E q \in Holder(tasks, 2) : q.pc = "call" /\ ~q.cancel /\ q.tracked

(***************************************************************************)
(* C13: every process_point call returns exactly one of "cautious",        *)
(* "normal", "aggressive": never an unset label, never another string.     *)
(***************************************************************************)
BehaviorLabels == {"cautious", "normal", "aggressive"}

C13_ReturnedLabelIsOneOfThree ==
    (n_distances > 0 /\ returned # "IndexError") => returned \in BehaviorLabels

(***************************************************************************)
(* C14: with max_clusters = 3 and points of the engine's dimension,        *)
(* process_point never raises; relabelling three clusters succeeds for     *)
(* every combination of mean norms, three equal norms included.            *)
(***************************************************************************)
C14_ProcessPointNeverRaises ==
    max_clusters = 3 => returned # "IndexError"

(***************************************************************************)
(* C15: a process_point call whose point has another length than the       *)
(* engine's dimension (shorter, length 1 included, or longer) is rejected  *)
(* with an error and leaves the clusters, the id counter and the distance  *)
(* statistics unchanged.                                                   *)
(***************************************************************************)
C15_DimensionMismatchRejected ==
    [][Len(last_step'.point) # Dimension
          => /\ returned' \in {"ValueError", "IndexError"}
             /\ UNCHANGED <<clusters, cluster_id_counter, n_distances,
                            mean_distance, variance_distance>>]_vars

(***************************************************************************)
(* C16: when the behavior scorer and the safety lookup both succeed,       *)
(* run_once returns an output that carries the policy, the alerts and the  *)
(* per-stage metrics of the tick.                                          *)
(***************************************************************************)
C16_RunOnceReturnsOutput ==
    (tick.behavior = "ok" /\ tick.safety = "ok")
        => /\ tick.out.raised = "None"
           /\ {"policy", "alerts", "metrics"} \subseteq tick.out.fields

(***************************************************************************)
(* C17: the tick loop never waits on the advice generator: an iteration    *)
(* whose scorer and lookup succeed starts no generator call and ends with  *)
(* its row persisted, also while a generator call of the worker is pending.*)
(***************************************************************************)
C17_TickNeverWaitsOnGenerator ==
    [][(tick.pc = "top" /\ tick'.pc = "sleep"
            /\ tick'.behavior = "ok" /\ tick'.safety = "ok")
          => /\ tasks' = tasks
             /\ tick'.saved = tick.saved + 1]_vars

(***************************************************************************)
(* C18: jobs are processed strictly in enqueue order: once the first       *)
(* generator call of a job has been made, no generator call and no         *)
(* callback of a job enqueued earlier happens any more.  Row ids are       *)
(* handed out in enqueue order.                                            *)
(***************************************************************************)
Started(row) == Holder(tasks, row) # {} \/ delivered[row] # <<>>

C18_JobsProcessedInEnqueueOrder ==
    [][\A a, b \in RowIds :
          (a < b /\ Started(b))
              => /\ delivered'[a] = delivered[a]
                 /\ \A n \in Holder(tasks', a) :
                       n.pc = "call" => \E q \in Holder(tasks, a) :
                                           q.pc = "call" /\ q.attempts = n.attempts]_vars

(***************************************************************************)
(* C19: start_background_tasks is idempotent: called while a worker task   *)
(* is running, it creates no second worker and leaves the running worker,  *)
(* the queue and the gate timestamp unchanged.                             *)
(***************************************************************************)
WorkerRunning == \E r \in Tasks : ~Done(r) /\ ~r.cancel

C19_StartIsIdempotent ==
    [][(WorkerRunning /\ start_background_tasks)
          => UNCHANGED <<tasks, llm_queue, last_llm_ts, unfinished>>]_vars

(***************************************************************************)
(* C20: an exception raised by the result callback is caught inside the    *)
(* worker: whether the callback returns or raises, the worker task does    *)
(* not end, task_done() is called exactly once for the job, and the worker *)
(* is back at queue.get() for the following jobs.                          *)
(***************************************************************************)
C20_CallbackExceptionCaught ==
    [][\A row \in RowIds : \A q \in Holder(tasks, row) :
          (q.pc = "callback" /\ ~q.cancel /\ Holder(tasks', row) = {})
              => /\ BackToGet(q) \in BagToSet(tasks')
                 /\ CopiesIn(BackToGet(q), tasks') = CopiesIn(BackToGet(q), tasks) + 1
                 /\ BagCardinality(tasks') = BagCardinality(tasks)
                 /\ unfinished' = unfinished - 1
                 /\ unfinished' = Len(llm_queue')
                       + BagCardinality([r \in {t \in BagToSet(tasks') : InJob(t)}
                                           |-> CopiesIn(r, tasks')])
                 /\ UNCHANGED <<llm_queue, delivered>>]_vars

C20_Witness ==
    /\ on_llm_result /\ BagCardinality(tasks) = 1
    /\ Len(delivered[1]) = 1 /\ Len(delivered[2]) = 1
    /\ unfinished = 1
    /\ \E q \in Holder(tasks, 2) : q.pc = "callback" /\ ~q.cancel

C22_RaisedJobEndsInDelivery ==
    (on_llm_result /\ last_call.force /\ next_row > 1) =>
        \/ \E i \in 1..Len(llm_queue) : llm_queue[i].row_id = next_row - 1
        \/ \E r \in Tasks : InJob(r) /\ r.job.row_id = next_row - 1
        \/ delivered[next_row - 1] # <<>>

\* C23: an accepted job is delivered exactly once, whatever start and stop
\* calls are made: no row is delivered twice, and with a callback set the row
\* of the latest accepted enqueue is queued, held by a worker, or delivered
C23_AcceptedJobDeliveredExactlyOnce ==
    /\ \A row \in RowIds : Len(delivered[row]) <= 1
    /\ (on_llm_result /\ last_call.accepted) =>
           \/ \E i \in 1..Len(llm_queue) : llm_queue[i].row_id = next_row - 1
           \/ \E r \in Tasks : InJob(r) /\ r.job.row_id = next_row - 1
           \/ Len(delivered[next_row - 1]) = 1

\* no row of `lons` lies within radius_m of the queried position
NoneWithin(lons, lon, radius_m) ==
    \A i \in Rows(lons) : ~WithinRadius(haversine_vectorized(lon, lons[i]), radius_m)

\* C24: get_nearby_alerts_by_gps returns an empty list and does not raise when
\* the index is not loaded, and when no hazard of either category is in range
C24_EmptyListWithoutRaising ==
    (/\ last_query # NoQuery
     /\ \/ ~last_query.loaded
        \/ /\ NoneWithin(ALERTS_INDEX.acidentes, last_query.lon, last_query.radius_m)
           /\ NoneWithin(ALERTS_INDEX.multas, last_query.lon, last_query.radius_m))
    => (alerts = <<>> /\ last_query.raised = "None")

\* C25: every cluster that holds no point (count = 0) has an all-zero mean
\* and an all-zero variance
C25_EmptyClusterHasZeroStatistics ==
    \A i \in 1..Len(clusters) :
        clusters[i].count = 0 => (clusters[i].mean = Zeros /\ clusters[i].variance = Zeros)

\* C26: cluster ids are unique and never reused: the ids of the clusters are
\* pairwise distinct and below cluster_id_counter, the counter never goes
\* down, and a cluster that a call adds (the one an outlier spawns, the two a
\* split appends) has an id no call has issued before: at least the counter's
\* value before the call
C26_ClusterIdsUniqueAndFresh ==
    /\ [](\A i, j \in 1..Len(clusters) :
             /\ clusters[i].id < cluster_id_counter
             /\ i # j => clusters[i].id # clusters[j].id)
    /\ [][/\ cluster_id_counter' >= cluster_id_counter
          /\ \A i \in 1..Len(clusters') :
                (\A j \in 1..Len(clusters) : clusters[j].id # clusters'[i].id)
                    => clusters'[i].id >= cluster_id_counter
          /\ (returned' # "ValueError" /\ last_step'.split) =>
                \A i \in {Len(clusters') - 1, Len(clusters')} :
                    clusters'[i].id >= cluster_id_counter
          /\ (returned' # "ValueError" /\ last_step'.spawned) =>
                \E i \in 1..Len(clusters') :
                    /\ clusters'[i].id = cluster_id_counter
                    /\ \A j \in 1..Len(clusters) : clusters[j].id < cluster_id_counter]_vars

\* a call has just spawned a cluster after an earlier call split one
C26_Witness ==
    /\ last_step.spawned
    /\ cluster_id_counter > 4
    /\ Len(clusters) = 3

\* C27: the gate timestamp is the time of the latest accepted enqueue, set in
\* the step that accepts the job, and no other step changes it; so an enqueue
\* accepted with force = false comes at least llm_min_interval_s after the
\* accepted enqueue before it, whatever the workers do in between
C27_AcceptedEnqueuesSpacedByGate ==
    [][IF Len(llm_queue') = Len(llm_queue) + 1
       THEN /\ last_llm_ts' = now
            /\ (~last_call'.force /\ last_llm_ts # None)
                   => now - last_llm_ts >= LlmMinIntervalS
       ELSE last_llm_ts' = last_llm_ts]_vars

\* a second job was accepted with force = false, llm_min_interval_s after the
\* first, which a worker has delivered in the meantime
C27_Witness ==
    /\ next_row = 3
    /\ last_call = [force |-> FALSE, accepted |-> TRUE]
    /\ Len(delivered[1]) = 1
    /\ llm_queue = <<[row_id |-> 2, snap |-> SnapshotOf(2)]>>
    /\ last_llm_ts = now
    /\ now = 1 + LlmMinIntervalS

\* the row is in the queue, held by a worker, or was delivered
Known(row) ==
    \/ \E i \in 1..Len(llm_queue) : llm_queue[i].row_id = row
    \/ \E r \in Tasks : r.job.row_id = row
    \/ delivered[row] # <<>>

\* C28: an enqueue_llm_job call that the rate gate rejects changes nothing
\* (queue, unfinished count, gate timestamp, workers and deliveries are as
\* before the call), and its job is not processed later: as long as that call
\* is the latest, its row is not queued, not held by a worker, not delivered
C28_RejectedEnqueueChangesNothing ==
    /\ [][(/\ llm /\ GateClosed(last_call'.force)
           /\ next_row' = next_row + 1)
             => /\ ~last_call'.accepted
                /\ llm_queue' = llm_queue
                /\ unfinished' = unfinished
                /\ last_llm_ts' = last_llm_ts
                /\ tasks' = tasks
                /\ delivered' = delivered]_vars
    /\ []((llm /\ next_row > 1 /\ ~last_call.accepted) => ~Known(next_row - 1))

\* the second call was rejected; since then the gate interval has passed and a
\* worker has delivered the first job and waits on the empty queue
C28_Witness ==
    /\ llm
    /\ next_row = 3
    /\ last_call = [force |-> FALSE, accepted |-> FALSE]
    /\ Len(delivered[1]) = 1
    /\ delivered[2] = <<>>
    /\ llm_queue = <<>>
    /\ last_llm_ts = 1
    /\ now = 1 + LlmMinIntervalS
    /\ \E r \in Tasks : r.pc = "get" /\ ~r.cancel

\* C29: a worker that holds a job has made at least one and at most 3
\* generator calls for it.  When a call of an uncancelled worker ends with
\* source "model" and a non-empty stripped message, the worker makes no
\* further call and invokes the callback with that result; when it ends any
\* other way and fewer than 3 calls were made, the worker sleeps and then
\* makes the next call; after the third it goes on to the callback.
C29_UpToThreeAttemptsStopAtFirstSuccess ==
    [][\A row \in RowIds : \A q \in Holder(tasks, row) :
          /\ q.attempts \in 1..MaxAttempts
          /\ \A n \in Holder(tasks', row) :
                (~q.cancel /\ n.pc # q.pc) =>
                    CASE q.pc = "call" ->
                           /\ n.attempts = q.attempts
                           /\ IF Accepted(LastAttempt(n.last))
                              THEN /\ n.pc = "callback"
                                   /\ delivered'[row]
                                        = Append(delivered[row], ExpectedArgs(row, n.last))
                              ELSE /\ n.pc \in (IF q.attempts < MaxAttempts
                                                THEN {"sleep", "sleep_exc"}
                                                ELSE {"sleep_exc", "callback"})
                                   /\ n.pc # "callback" => delivered' = delivered
                      [] q.pc = "sleep_exc" ->
                           /\ n.attempts = q.attempts
                           /\ n.pc = IF q.attempts < MaxAttempts THEN "sleep" ELSE "callback"
                      [] q.pc = "sleep" ->
                           /\ n.pc = "call"
                           /\ n.attempts = q.attempts + 1
                           /\ delivered' = delivered
                      [] OTHER -> TRUE]_vars

\* the second call of a job was the first to succeed, and its result is the
\* one delivery of the job
C29_Witness ==
    \E row \in RowIds : \E q \in Holder(tasks, row) :
        /\ on_llm_result
        /\ q.pc = "callback"
        /\ q.attempts = 2
        /\ q.last = "model"
        /\ delivered[row] = <<ExpectedArgs(row, "model")>>

\* C30: the worker sleeps only between attempts: a worker asleep has made
\* fewer than 3 calls for its job, and when the sleep of an uncancelled
\* worker ends the next thing it does is the next call (one sleep per failed
\* attempt, also when the attempt raised)
C30_OneSleepBetweenAttempts ==
    [][\A row \in RowIds : \A q \in Holder(tasks, row) :
          q.pc \in {"sleep", "sleep_exc"} =>
              /\ q.attempts < MaxAttempts
              /\ \A n \in Holder(tasks', row) :
                    (~q.cancel /\ n.pc # q.pc) =>
                        (n.pc = "call" /\ n.attempts = q.attempts + 1)]_vars

\* C31: when stop_background_tasks returns, no worker task is running and
\* none is tracked, and the jobs waiting in the queue are still queued
C31_StopLeavesNoWorkerAndKeepsQueue ==
    [][(\/ \E r \in Tasks, last \in BOOLEAN : stop_resume(r, last)
        \/ (stop_begin /\ \A r \in Tracked : Done(r)))
          => /\ \A t \in BagToSet(tasks') : Done(t)
             /\ \A t \in BagToSet(tasks') : ~t.tracked
             /\ llm_queue' = llm_queue
             /\ unfinished' = unfinished]_vars

\* the statistics of the clusters, without their labels
Unlabelled(cs) == [i \in 1..Len(cs) |-> [cs[i] EXCEPT !.label = NoLabel]]

\* C32: a process_point call whose point is an outlier while the engine holds
\* max_clusters clusters leaves every cluster's id, count, mean and variance,
\* the list of clusters and cluster_id_counter as they were; the distance
\* statistics take the new distance in
C32_OutlierAtCapMutatesNoCluster ==
    [][(/\ n_distances' = n_distances + 1
        /\ last_step'.outlier
        /\ Len(clusters) = max_clusters)
          => /\ Unlabelled(clusters') = Unlabelled(clusters)
             /\ cluster_id_counter' = cluster_id_counter
             /\ ~last_step'.spawned /\ ~last_step'.split]_vars

\* the latest point was an outlier for an engine at its cap of 3: no cluster
\* was spawned for it
C32_Witness ==
    /\ max_clusters = 3
    /\ Len(clusters) = 3
    /\ last_step.outlier
    /\ ~last_step.spawned
    /\ last_step.min_distance > 0

\* the cluster an outlier spawns: id k, the point as its only member
Spawned(k, point) == [Cluster(k) EXCEPT !.count = 1, !.mean = point]

\* the position of the cluster with this id
IndexOf(cs, id) == CHOOSE i \in 1..Len(cs) : cs[i].id = id

\* C33: a process_point call whose point is an outlier while the engine holds
\* fewer than max_clusters clusters appends one cluster with the next id,
\* count 1, the point as mean and zero variance, and does not add the point to
\* the nearest cluster: the clusters that were there keep their count, mean
\* and variance (when the same call goes on to split the nearest cluster, its
\* two children are made from those unchanged statistics)
C33_OutlierBelowCapSpawnsCluster ==
    [][(/\ n_distances' = n_distances + 1
        /\ last_step'.outlier
        /\ Len(clusters) < max_clusters)
          => /\ last_step'.spawned
             /\ cluster_id_counter' = cluster_id_counter + (IF last_step'.split THEN 3 ELSE 1)
             /\ Unlabelled(clusters')
                  = IF last_step'.split
                    THEN Unlabelled(Remove(clusters, IndexOf(clusters, last_step'.parent)))
                           \o <<Spawned(cluster_id_counter, last_step'.point)>>
                           \o split_cluster_with_variance(
                                 clusters[IndexOf(clusters, last_step'.parent)],
                                 cluster_id_counter + 1)
                    ELSE Unlabelled(clusters)
                           \o <<Spawned(cluster_id_counter, last_step'.point)>>]_vars

\* an outlier has just spawned the third cluster, next to two that hold points
C33_Witness ==
    /\ last_step.spawned
    /\ ~last_step.split
    /\ Len(clusters) = 3
    /\ clusters[3] = [Spawned(cluster_id_counter - 1, last_step.point)
                        EXCEPT !.label = clusters[3].label]
    /\ clusters[1].count > 0
    /\ clusters[2].count > 0

(***************************************************************************)
(* C34.  update_label on exactly three clusters labels the cluster of      *)
(* minimal mean norm "cautious", the one of maximal mean norm              *)
(* "aggressive" and the remaining one "normal", so that after the call     *)
(* each of the three labels is held by exactly one cluster.                *)
(***************************************************************************)
Holders(cs, label) == {i \in 1..Len(cs) : cs[i].label = label}

C34_ThreeClustersEachLabelOnce ==
    [][Len(clusters) = 3
          => /\ clusters'[ArgMinNorm(clusters)].label = "cautious"
             /\ clusters'[ArgMaxNorm(clusters)].label = "aggressive"
             /\ \A label \in {"cautious", "aggressive", "normal"} :
                   Cardinality(Holders(clusters', label)) = 1]_vars

(***************************************************************************)
(* C35.  Each Alert returned by get_nearby_alerts_by_gps is built from the *)
(* nearest match of its category: a row of that category within the       *)
(* radius, with no other row of the category within the radius closer to   *)
(* the query point.  It has direction "ahead" and confidence 0.85 for an   *)
(* accident and 0.75 for a fine, and the accident alert, when present,     *)
(* precedes the fine alert.                                                *)
(***************************************************************************)
Matches(lons, lon, radius_m) ==
    {i \in Rows(lons) : WithinRadius(haversine_vectorized(lon, lons[i]), radius_m)}

BuiltFromNearest(alert, lons, lon, radius_m) ==
    \E i \in Matches(lons, lon, radius_m) :
        /\ alert.distance_m = IntMetres(haversine_vectorized(lon, lons[i]))
        /\ \A j \in Matches(lons, lon, radius_m) :
              haversine_vectorized(lon, lons[i]) <= haversine_vectorized(lon, lons[j])

C35_AlertIsNearestMatchOfCategory ==
    /\ \A i \in 1..Len(alerts) :
          /\ alerts[i].direction = "ahead"
          /\ alerts[i].type = "accident"
                => /\ alerts[i].confidence = 85
                   /\ BuiltFromNearest(alerts[i], ALERTS_INDEX.acidentes,
                                       last_query.lon, last_query.radius_m)
          /\ alerts[i].type = "fine"
                => /\ alerts[i].confidence = 75
                   /\ BuiltFromNearest(alerts[i], ALERTS_INDEX.multas,
                                       last_query.lon, last_query.radius_m)
    /\ \A i, j \in 1..Len(alerts) :
          (alerts[i].type = "accident" /\ alerts[j].type = "fine") => i < j

(***************************************************************************)
(* C36.  The safety scheduler raises advisories at most once per backoff   *)
(* window: any two of its iterations that take the hazard branch and       *)
(* attempt an enqueue are at least SAFETY_ALERT_BACKOFF_S apart, however   *)
(* often it polls while hazards are present.                               *)
(***************************************************************************)
C36_HazardAttemptsSpacedByBackoff ==
    \A i, j \in 1..Len(sched.fired) :
        i < j => sched.fired[j].t - sched.fired[i].t >= SafetyAlertBackoffS

\* the scheduler has attempted two enqueues, more than a backoff window apart
C36_Witness ==
    /\ Len(sched.fired) = 2
    /\ sched.fired[1].enqueue /\ sched.fired[2].enqueue
    /\ sched.fired[2].t - sched.fired[1].t > SafetyAlertBackoffS

C38_ForcedEnqueueAcceptedAndStamped ==
    /\ [][(llm /\ next_row' = next_row + 1 /\ last_call'.force)
             => /\ last_call'.accepted
                /\ llm_queue' = Append(llm_queue, [row_id |-> next_row,
                                                   snap |-> SnapshotOf(next_row)])
                /\ last_llm_ts' = now]_vars
    /\ [][(/\ llm /\ next_row' = next_row + 1
           /\ last_call.force /\ last_call.accepted /\ ~last_call'.force
           /\ now - last_llm_ts < LlmMinIntervalS)
             => /\ ~last_call'.accepted
                /\ llm_queue' = llm_queue
                /\ last_llm_ts' = last_llm_ts]_vars

\* a forced call was accepted 6 s after the accepted enqueue before it, and it
\* has set the gate timestamp
C38_Witness ==
    /\ llm
    /\ next_row = 3
    /\ last_call = [force |-> TRUE, accepted |-> TRUE]
    /\ Known(1) /\ Known(2)
    /\ last_llm_ts = now
    /\ now = 7

(***************************************************************************)
(* C39.  In the safety scheduler the backoff timestamp is advanced         *)
(* whenever hazards are detected and the backoff has elapsed, before and   *)
(* independently of the enqueue attempt: if the enqueue is then rejected   *)
(* by the rate gate, no job is queued, and the scheduler still makes no    *)
(* further attempt for the next SAFETY_ALERT_BACKOFF_S seconds.            *)
(***************************************************************************)
Polled == sched.pc = "query" /\ sched'.pc = "top"

C39_BackoffAdvancedWhateverTheEnqueue ==
    /\ [][(/\ Polled /\ sched'.poll.hazards
           /\ Monotonic - last_safety_alert_time >= SafetyAlertBackoffS)
             => /\ last_safety_alert_time' = Monotonic
                /\ (llm /\ last_llm_ts # None /\ now - last_llm_ts < LlmMinIntervalS)
                      => llm_queue' = llm_queue /\ last_llm_ts' = last_llm_ts]_vars
    /\ [][(Polled /\ Monotonic - last_safety_alert_time < SafetyAlertBackoffS)
             => /\ llm_queue' = llm_queue
                /\ last_call' = last_call
                /\ last_safety_alert_time' = last_safety_alert_time]_vars

\* the main loop's job for row 1 was accepted; the scheduler's enqueue of the
\* same row, 6 s later, was rejected by the rate gate and advanced the backoff
\* timestamp; a later poll inside the window found hazards and did nothing
C39_Witness ==
    /\ llm
    /\ next_row = 2
    /\ Len(llm_queue) = 1
    /\ last_llm_ts = 1
    /\ last_call = [force |-> FALSE, accepted |-> FALSE]
    /\ sched.pc = "top"
    /\ sched.fired = <<[t |-> Uptime + 7, enqueue |-> TRUE]>>
    /\ last_safety_alert_time = Uptime + 7
    /\ sched.poll.hazards
    /\ now = 13

(***************************************************************************)
(* C40.  The number of clusters never decreases across process_point       *)
(* calls, and once it has reached max_clusters the set of cluster ids      *)
(* never changes again: no further spawn, split or removal, whatever       *)
(* points follow.                                                          *)
(***************************************************************************)
IdSet(cs) == {cs[i].id : i \in 1..Len(cs)}

C40_ClustersNeverShrinkAndIdsFreezeAtCap ==
    [][/\ Len(clusters') >= Len(clusters)
       /\ Len(clusters) = max_clusters
             => /\ IdSet(clusters') = IdSet(clusters)
                /\ Len(clusters') = Len(clusters)
                /\ cluster_id_counter' = cluster_id_counter
                /\ ~last_step'.spawned
                /\ ~last_step'.split]_vars

\* an engine that reached its cap of 3 through two splits has been fed an
\* outlier as its last point, and holds the same three ids
C40_Witness ==
    /\ max_clusters = 3
    /\ IdSet(clusters) = {3, 4, 5}
    /\ cluster_id_counter = 6
    /\ n_distances = MaxPoints
    /\ last_step.outlier

====
